---- MODULE Spec2Model ----
(***************************************************************************)
(* BTW - Claude injection strategy (ClaudeStrategy.ts).                    *)
(*                                                                         *)
(* The project tree is the state: the .claude and .claude/agents           *)
(* directories, the files of the agents directory (agent artifacts, their  *)
(* .btw-backup siblings, files of the user), .claude/settings.json and the *)
(* shared document CLAUDE.md.  Texts are sequences of tokens <<kind, argument, time>>; a   *)
(* token is one line of text or one newline, so that indexOf, substring,   *)
(* trim and the ownership regular expression are computed as the code      *)
(* computes them on strings.                                               *)
(***************************************************************************)
EXTENDS Integers, Sequences, FiniteSets, TLC

VARIABLES claudeDir, agentsDir, agents, claudeMd, settings, now, last, ui

vars == <<claudeDir, agentsDir, agents, claudeMd, settings, now, last, ui>>

(***************************************************************************)
(* Bounds of the model.                                                    *)
(***************************************************************************)
\* the clock takes the values 0..MaxTime
MaxTime == 1
\* most "---" lines the shared document may hold (the footer's included)
MaxSeparators == 3

(***************************************************************************)
(* Tokens and string primitives.                                           *)
(***************************************************************************)
Tok(k, a, t) == <<k, a, t>>
NL == Tok("\\n", "", 0)
EMPTY == Tok("", "", 0)
SEP == Tok("---", "", 0)
BTW_START_MARKER == Tok("<!-- BTW_START -->", "", 0)
BTW_END_MARKER == Tok("<!-- BTW_END -->", "", 0)
BTW_VERSION == "1.0.0"
BACKUP_SUFFIX == ".btw-backup"

\* lines.join('\n'): a newline between consecutive lines, an empty line
\* contributing no character of its own
RECURSIVE join(_)
join(lines) ==
    IF lines = <<>> THEN <<>>
    ELSE LET h == IF Head(lines) = EMPTY THEN <<>> ELSE <<Head(lines)>>
         IN  IF Len(lines) = 1 THEN h ELSE h \o <<NL>> \o join(Tail(lines))

isWhitespace(t) == t = NL

RECURSIVE trimStart(_)
trimStart(s) ==
    IF s # <<>> /\ isWhitespace(Head(s)) THEN trimStart(Tail(s)) ELSE s

RECURSIVE trimEnd(_)
trimEnd(s) ==
    IF s # <<>> /\ isWhitespace(s[Len(s)])
    THEN trimEnd(SubSeq(s, 1, Len(s) - 1)) ELSE s

\* String.prototype.trim
trim(s) == trimEnd(trimStart(s))

\* String.prototype.indexOf, with the 0-based positions of the source
indexOf(s, t) ==
    IF \E i \in 1..Len(s) : s[i] = t
    THEN (CHOOSE i \in 1..Len(s) :
              s[i] = t /\ \A j \in 1..(i - 1) : s[j] # t) - 1
    ELSE -1

\* String.prototype.substring(from, to) and substring(from)
substring(s, from, to) == SubSeq(s, from + 1, to)
substringFrom(s, from) == SubSeq(s, from + 1, Len(s))

\* String.prototype.includes for a one-token needle
includes(s, t) == \E i \in 1..Len(s) : s[i] = t

\* content.includes(`BTW:${workflowId}:`): the text occurs in the ownership
\* comment createMarker writes for that workflow
includesBtwId(s, workflowId) ==
    \E i \in 1..Len(s) : s[i][1] = "<!-- BTW:id:ts -->" /\ s[i][2] = workflowId

Count(s, t) == Cardinality({i \in 1..Len(s) : s[i] = t})

(***************************************************************************)
(* Manifests and agent definitions given to inject.                        *)
(***************************************************************************)
WorkflowIds == {"demo", "other"}

\* the agent definitions by id.  The description of quoter mentions a
\* workflow comment, the one of breaker starts with one and goes on in a
\* second line, and the prompt of prompter is one
AgentDef(id) ==
    [id |-> id, name |-> id,
     description |-> CASE id = "writer" -> "Reviews: code"
                       [] id = "quoter" -> "see # workflow: other"
                       [] id = "breaker" -> "# workflow: other\nmore"
                       [] OTHER -> "d",
     systemPrompt |-> IF id = "prompter" THEN "# workflow: other" ELSE "p",
     model |-> IF id = "writer" THEN "claude-3-opus" ELSE ""]

ManifestOf(id, agentIds) ==
    [id |-> id, name |-> id, description |-> "desc", version |-> "1.0",
     agents |-> [i \in 1..Len(agentIds) |-> AgentDef(agentIds[i])],
     author |-> IF id = "demo" THEN "author" ELSE "",
     repository |-> "",
     targets |-> IF id = "legacy" THEN {"cursor"} ELSE {"claude", "cursor"}]

\* two versions of workflow demo, and workflow other, which shares the agent
\* id tester with the first version of demo and no agent id with the second
Manifests ==
    {ManifestOf("demo", <<"writer", "tester">>),
     ManifestOf("demo", <<"writer">>),
     ManifestOf("other", <<"tester", "helper">>)}

(***************************************************************************)
(* Artifact generation.                                                    *)
(***************************************************************************)
\* the descriptions that hold ':', '#', a newline or a leading/trailing space
hasYamlSpecial(str) ==
    str \in {"Reviews: code", "see # workflow: other", "# workflow: other\nmore"}

escapeYamlString(str) ==
    IF hasYamlSpecial(str) THEN "\"" \o str \o "\"" ELSE str

modelMap(model) ==
    CASE model = "claude-3-opus" -> "opus"
      [] model = "claude-3-sonnet" -> "sonnet"
      [] model = "claude-3-haiku" -> "haiku"
      [] model = "claude-opus-4" -> "opus"
      [] model = "claude-sonnet-4" -> "sonnet"
      [] OTHER -> model

generateAgentFile(agent, workflowId, ts) ==
    join(<<SEP,
           Tok("name: ", agent.id, 0),
           Tok("description: ", escapeYamlString(agent.description), 0)>>
         \o (IF agent.model # "" THEN <<Tok("model: ", modelMap(agent.model), 0)>>
             ELSE <<>>)
         \o <<Tok("# BTW metadata", "", 0),
              Tok("# workflow: ", workflowId, 0),
              Tok("# injected: ", "", ts),
              SEP,
              EMPTY,
              Tok("systemPrompt", agent.systemPrompt, 0)>>)

\* BaseInjectionStrategy.createMarker: <!-- BTW:<id>:<timestamp> -->
createMarker(workflowId, ts) == Tok("<!-- BTW:id:ts -->", workflowId, ts)

generateInstructions(manifest, ts) ==
    join(<<BTW_START_MARKER,
           createMarker(manifest.id, ts),
           EMPTY,
           Tok("# ", manifest.name, 0),
           EMPTY>>
         \o (IF manifest.description # ""
             THEN <<Tok("description", manifest.description, 0), EMPTY>>
             ELSE <<>>)
         \o <<Tok("## Workflow Information", "", 0),
              EMPTY,
              Tok("- **Workflow ID:** ", manifest.id, 0),
              Tok("- **Version:** ", manifest.version, 0)>>
         \o (IF manifest.author # ""
             THEN <<Tok("- **Author:** ", manifest.author, 0)>> ELSE <<>>)
         \o (IF manifest.repository # ""
             THEN <<Tok("- **Repository:** ", manifest.repository, 0)>>
             ELSE <<>>)
         \o <<EMPTY>>
         \o (IF Len(manifest.agents) > 0
             THEN <<Tok("## Available Agents", "", 0),
                    EMPTY,
                    Tok("This workflow provides the following specialized agents:", "", 0),
                    EMPTY>>
                  \o [i \in 1..Len(manifest.agents) |->
                        Tok("- **agent** ", manifest.agents[i].id, 0)]
                  \o <<EMPTY>>
             ELSE <<>>)
         \o <<SEP,
              EMPTY,
              Tok("*Injected by BTW*", BTW_VERSION, ts),
              EMPTY,
              BTW_END_MARKER>>)

(***************************************************************************)
(* The shared document.                                                    *)
(***************************************************************************)
\* mutant: the old region left in the text
removeBtwContent_keepsRegion(content) == content

removeBtwContent(content) ==
    LET startIndex == indexOf(content, BTW_START_MARKER)
        endIndex == indexOf(content, BTW_END_MARKER)
    IN  IF startIndex # -1 /\ endIndex # -1 /\ endIndex > startIndex
        THEN LET before == substring(content, 0, startIndex)
                 after == substringFrom(content, endIndex + 1)
             IN  trim(before \o after)
        ELSE content

\* "\n\n---\n\n"
SEPARATOR == <<NL, NL, SEP, NL, NL>>

Absent == [exists |-> FALSE, content |-> <<>>]

\* .claude/settings.json: absent, holding JSON, or holding text that
\* JSON.parse rejects
NoSettings == "absent"
SettingsStates == {NoSettings, "json", "not json"}
File(content) == [exists |-> TRUE, content |-> content]

\* doc is the file at claudeMdPath; the result is the file after the call
updateClaudeMd(doc, manifest, options, ts) ==
    LET btwContent == generateInstructions(manifest, ts)
        exists == doc.exists
        existingContent == doc.content
        cleanedContent == removeBtwContent(existingContent)
        finalContent == IF trim(cleanedContent) # <<>>
                        THEN trim(cleanedContent) \o SEPARATOR \o btwContent
                        ELSE btwContent
    IN  IF options.merge /\ exists
        THEN File(finalContent)
        ELSE IF exists /\ ~options.force
        THEN IF includes(existingContent, BTW_START_MARKER)
             THEN File(finalContent)
             ELSE File(trim(existingContent) \o SEPARATOR \o btwContent)
        ELSE File(btwContent)

(***************************************************************************)
(* The agents directory.  A file name is <<stem, extension>>; agents maps  *)
(* the names of the files of .claude/agents to their contents.             *)
(***************************************************************************)
MD == ".md"
agentFilePath(agentId) == <<agentId, MD>>
backupPath(file) == <<file[1], file[2] \o BACKUP_SUFFIX>>

NoFiles == [n \in {} |-> <<>>]
Put(files, name, content) ==
    [n \in DOMAIN files \cup {name} |-> IF n = name THEN content ELSE files[n]]
Del(files, names) == [n \in DOMAIN files \ names |-> files[n]]

\* !file.name.endsWith('.md') || file.name.endsWith('.btw-backup') -> continue
isCandidate(name) == name[2] = MD

NoMatch == ""

\* /# workflow: (.+)/ inside the text of a description or a prompt as the
\* file holds it: the capture runs to the end of the line, so it takes the
\* closing quote of escapeYamlString when the comment ends the description
\* and stops before the line break when the description goes on.  NoMatch
\* for the texts of the model that hold no workflow comment
commentIn(text) ==
    CASE text = "\"see # workflow: other\"" -> "other\""
      [] text = "\"# workflow: other\nmore\"" -> "other"
      [] text = "# workflow: other" -> "other"
      [] OTHER -> NoMatch

\* what the regular expression captures in one token, the metadata line
\* generateAgentFile writes or a text that holds a workflow comment
captured(token) ==
    IF token[2] = "" THEN NoMatch
    ELSE IF token[1] = "# workflow: " THEN token[2]
    ELSE commentIn(token[2])

\* content.match(/# workflow: (.+)/), then match[1].trim(): the first
\* workflow comment of the text, NoMatch when the text holds none
workflowMatch(content) ==
    LET hits == {i \in 1..Len(content) : captured(content[i]) # NoMatch}
    IN  IF hits = {} THEN NoMatch
        ELSE captured(content[CHOOSE i \in hits : \A j \in hits : i <= j])

findBtwAgents(files) ==
    {n \in DOMAIN files :
        /\ isCandidate(n)
        /\ \/ includes(files[n], Tok("# BTW metadata", "", 0))
           \/ \E i \in 1..Len(files[n]) :
                 files[n][i][1] = "# workflow: " \/ captured(files[n][i]) # NoMatch}

findBtwAgentsForWorkflow(files, workflowId) ==
    {n \in DOMAIN files :
        /\ isCandidate(n)
        /\ LET match == workflowMatch(files[n])
           IN  match # NoMatch /\ match = workflowId}

getAllWorkflowIdsFromAgents(files) ==
    {workflowMatch(files[n]) :
        n \in {m \in DOMAIN files :
                  isCandidate(m) /\ workflowMatch(files[m]) # NoMatch}}

\* mutant: any installed workflow counts as this one
isWorkflowInjected_anyWorkflow(files, workflowId) ==
    getAllWorkflowIdsFromAgents(files) # {}

isWorkflowInjected(files, workflowId) ==
    workflowId \in getAllWorkflowIdsFromAgents(files)

\* fileSystem.backup(agentFile) for every file of the set: a copy next to it
backupAll(files, names) ==
    [n \in DOMAIN files \cup {backupPath(m) : m \in names} |->
        IF \E m \in names : n = backupPath(m)
        THEN files[CHOOSE m \in names : n = backupPath(m)]
        ELSE files[n]]

\* mutant: the writes started together, none waiting for the one before
writeAgentFiles_allAtOnce(files, manifest, from, to, ts) ==
    LET rest == from..Len(manifest.agents)
        paths == {agentFilePath(manifest.agents[i].id) : i \in rest}
    IN  [n \in DOMAIN files \cup paths |->
            IF n \in paths
            THEN LET i == CHOOSE j \in rest : agentFilePath(manifest.agents[j].id) = n
                 IN  generateAgentFile(manifest.agents[i], manifest.id, ts)
            ELSE files[n]]

\* step 5 of inject: the files of agents from..to of the manifest, in order
RECURSIVE writeAgentFiles(_, _, _, _, _)
writeAgentFiles(files, manifest, from, to, ts) ==
    IF from > to THEN files
    ELSE writeAgentFiles(
             Put(files, agentFilePath(manifest.agents[from].id),
                 generateAgentFile(manifest.agents[from], manifest.id, ts)),
             manifest, from + 1, to, ts)

(***************************************************************************)
(* inject.  fs is the project tree [claudeDir, agentsDir, agents,          *)
(* claudeMd, settings]; io.failAt = k > 0 makes the writeFile of the k-th  *)
(* agent throw, 0 lets every write succeed; io.backupFails holds the files *)
(* whose fileSystem.backup throws.                                         *)
(***************************************************************************)
INJECTION_FAILED == "INJECTION_FAILED"

\* errors as values: type is the class of the thrown object, cause the
\* error a BTWError carries; NoError stands for no error and no cause
NoError == [type |-> "none"]

\* the Error a call of the filesystem capability rejects with
FsError == [type |-> "Error", code |-> "EACCES", message |-> "permission denied",
            cause |-> NoError]

\* the BTWError of the duplicate check (lines 61-70)
duplicateError(workflowId) ==
    [type |-> "BTWError", code |-> INJECTION_FAILED,
     message |-> "is already injected", cause |-> NoError,
     context |-> workflowId]

\* mutant: the catch rethrows whatever it caught
injectCatch_rethrows(error) == error

\* the catch of inject (118-127): a BTWError is rethrown, anything else is
\* wrapped, with the caught object as cause when it is an Error
injectCatch(error) ==
    IF error.type = "BTWError" THEN error
    ELSE [type |-> "BTWError", code |-> INJECTION_FAILED,
          message |-> "Failed to inject workflow into Claude configuration",
          cause |-> IF error.type = "Error" THEN error ELSE NoError]

\* the catch of eject (195-204)
ejectCatch(error) ==
    IF error.type = "BTWError" THEN error
    ELSE [type |-> "BTWError", code |-> INJECTION_FAILED,
          message |-> "Failed to eject workflow from Claude configuration",
          cause |-> IF error.type = "Error" THEN error ELSE NoError]

\* mutant: the force flag read the wrong way round
alreadyInjected_forceInverted(files, manifest, options) ==
    options.force /\ isWorkflowInjected(files, manifest.id)

\* step 2: the duplicate check that throws the BTWError
alreadyInjected(files, manifest, options) ==
    ~options.force /\ isWorkflowInjected(files, manifest.id)

\* step 3: the files snapshot when backup is requested
backupTargets(files, manifest, options) ==
    IF options.backup THEN findBtwAgentsForWorkflow(files, manifest.id) ELSE {}

\* mutant: the first snapshot that throws ends the backup step
backupSnapshots_stopAtFailure(existingAgents, io) ==
    IF existingAgents \cap io.backupFails # {} THEN {} ELSE existingAgents

\* step 3: the files whose snapshot succeeds; a throw of fileSystem.backup
\* is caught per file
backupSnapshots(existingAgents, io) == existingAgents \ io.backupFails

\* mutant: the removal of a forced injection left out
removeExistingAgents_skipped(files, manifest, options) == files

\* step 4: the files left after the removal of a forced injection
removeExistingAgents(files, manifest, options) ==
    IF options.force
    THEN Del(files, findBtwAgentsForWorkflow(files, manifest.id))
    ELSE files

\* mutant: the files written before the failure taken away again
treeAfterFailure_rolledBack(fs1, files5) == fs1

\* the catch of inject (118-127) rethrows and undoes nothing: the tree keeps
\* the files written before the write that threw
treeAfterFailure(fs1, files5) == [fs1 EXCEPT !.agents = files5]

inject(fs, manifest, options, ts, io) ==
    LET fs1 == [fs EXCEPT !.claudeDir = TRUE, !.agentsDir = TRUE]
        existingAgents == backupTargets(fs1.agents, manifest, options)
        snapshots == backupSnapshots(existingAgents, io)
        files3 == backupAll(fs1.agents, snapshots)
        files4 == removeExistingAgents(files3, manifest, options)
        written == IF io.failAt = 0 THEN Len(manifest.agents) ELSE io.failAt - 1
        files5 == writeAgentFiles(files4, manifest, 1, written, ts)
        agentPaths == {agentFilePath(manifest.agents[i].id) : i \in 1..written}
        removed == DOMAIN files3 \ DOMAIN files4
        overwritten == agentPaths \cap DOMAIN files4
    IN  IF alreadyInjected(fs1.agents, manifest, options)
        THEN [fs |-> fs1, ok |-> FALSE, error |-> INJECTION_FAILED,
              message |-> "is already injected",
              thrown |-> injectCatch(duplicateError(manifest.id)),
              backupCreated |-> FALSE,
              agentPaths |-> {}, removed |-> {}, overwritten |-> {}]
        ELSE IF io.failAt # 0
        THEN [fs |-> treeAfterFailure(fs1, files5),
              ok |-> FALSE, error |-> INJECTION_FAILED,
              message |-> "Failed to inject workflow",
              thrown |-> injectCatch(FsError),
              backupCreated |-> snapshots # {},
              agentPaths |-> agentPaths, removed |-> removed,
              overwritten |-> overwritten]
        ELSE [fs |-> [fs1 EXCEPT !.agents = files5,
                                 !.claudeMd = updateClaudeMd(fs1.claudeMd, manifest,
                                                             options, ts)],
              ok |-> TRUE, error |-> "", message |-> "", thrown |-> NoError,
              backupCreated |-> snapshots # {},
              agentPaths |-> agentPaths, removed |-> removed,
              overwritten |-> overwritten]

(***************************************************************************)
(* eject.  options.workflowId = "" is an eject without a workflow id.      *)
(***************************************************************************)
\* mutant: the workflow id of the options not looked at
ejectAgentFiles_allWorkflows(files, options) ==
    LET btwAgents == findBtwAgents(files)
    IN  Del(files, btwAgents \cup {backupPath(f) : f \in btwAgents})

\* step 1: the agent files removed, each with its backup when it exists
ejectAgentFiles(files, options) ==
    LET btwAgents == IF options.workflowId # ""
                     THEN findBtwAgentsForWorkflow(files, options.workflowId)
                     ELSE findBtwAgents(files)
    IN  Del(files, btwAgents \cup {backupPath(f) : f \in btwAgents})

\* mutant: the cleaned document written back even when it is blank
cleanClaudeMd_keepsBlank(doc, options) ==
    IF ~doc.exists THEN doc
    ELSE LET content == doc.content
             shouldCleanClaudeMd ==
                 options.workflowId = "" \/ includesBtwId(content, options.workflowId)
             cleanedContent == removeBtwContent(content)
         IN  IF ~shouldCleanClaudeMd THEN doc
             ELSE File(trim(cleanedContent) \o <<NL>>)

\* step 2: CLAUDE.md after the clean-up of the BTW content
cleanClaudeMd(doc, options) ==
    IF ~doc.exists THEN doc
    ELSE LET content == doc.content
             shouldCleanClaudeMd ==
                 options.workflowId = "" \/ includesBtwId(content, options.workflowId)
             cleanedContent == removeBtwContent(content)
         IN  IF ~shouldCleanClaudeMd THEN doc
             ELSE IF trim(cleanedContent) # <<>>
             THEN File(trim(cleanedContent) \o <<NL>>)
             ELSE Absent

\* the agents directory after step 1: removed when readdir finds it empty
removeAgentsDirIfEmpty(agentsDir0, files1) ==
    agentsDir0 /\ ~(DOMAIN files1 = {})

\* mutant: .claude removed when empty, the clean option not looked at
cleanClaudeDir_ignoresClean(claudeDir0, agentsDir1, settings0, options) ==
    IF claudeDir0 /\ ~agentsDir1 /\ settings0 = NoSettings
    THEN FALSE ELSE claudeDir0

\* step 3: .claude after the clean option; its entries are the agents
\* directory and settings.json
cleanClaudeDir(claudeDir0, agentsDir1, settings0, options) ==
    IF options.clean /\ claudeDir0 /\ ~agentsDir1 /\ settings0 = NoSettings
    THEN FALSE ELSE claudeDir0

eject(fs, options) ==
    LET files1 == ejectAgentFiles(fs.agents, options)
        agentsDir1 == removeAgentsDirIfEmpty(fs.agentsDir, files1)
        claudeDir1 == cleanClaudeDir(fs.claudeDir, agentsDir1, fs.settings, options)
    IN  [fs |-> [claudeDir |-> claudeDir1,
                 agentsDir |-> agentsDir1,
                 agents |-> files1,
                 claudeMd |-> cleanClaudeMd(fs.claudeMd, options),
                 settings |-> fs.settings],
         ok |-> TRUE, error |-> "", message |-> "", thrown |-> NoError,
         removed |-> DOMAIN fs.agents \ DOMAIN files1]

(***************************************************************************)
(* getStatus and validate.  io names the calls of the filesystem that      *)
(* throw during one call of the strategy: readdir of the agents directory, *)
(* exists, and readFile of the files in io.unreadable.                     *)
(***************************************************************************)
SETTINGS_JSON == <<"settings", ".json">>

\* what the scans see of the agents directory: nothing when readdir throws
\* (caught, 464 and 537), and no file whose readFile throws (caught, 460)
\* mutant: a readFile that throws ends the loop over the files
Readable_outerCatch(files, io) ==
    IF io.readdirFails \/ io.unreadable \cap DOMAIN files # {} THEN NoFiles
    ELSE files

Readable(files, io) ==
    IF io.readdirFails THEN NoFiles
    ELSE [n \in DOMAIN files \ io.unreadable |-> files[n]]

NotInjected == [isInjected |-> FALSE, workflowId |-> "", hasBackup |-> FALSE]

\* mutant: the id of any workflow, owning artifacts or not
getWorkflowIdFromAgents_anyWorkflow(files) == WorkflowIds

\* the ids getWorkflowIdFromAgents may return: ids[0] is the id of the
\* first marked file in the order of readdir, null without marked file
getWorkflowIdFromAgents(files) ==
    IF getAllWorkflowIdsFromAgents(files) = {} THEN {NoMatch}
    ELSE getAllWorkflowIdsFromAgents(files)

\* the try block of getStatus: threw is an exception leaving it
getStatusTry(fs, io, workflowId) ==
    LET btwAgents == findBtwAgents(Readable(fs.agents, io))
    IN  IF btwAgents = {}
        THEN [threw |-> FALSE, status |-> NotInjected]
        ELSE IF io.existsFails
        THEN [threw |-> TRUE, status |-> NotInjected]
        ELSE [threw |-> FALSE,
              status |-> [isInjected |-> TRUE, workflowId |-> workflowId,
                          hasBackup |-> \E f \in btwAgents :
                                           backupPath(f) \in DOMAIN fs.agents]]

\* mutant: the catch of getStatus left out
getStatus_noCatch(fs, io, workflowId) ==
    [raised |-> getStatusTry(fs, io, workflowId).threw,
     status |-> getStatusTry(fs, io, workflowId).status]

getStatus(fs, io, workflowId) ==
    IF getStatusTry(fs, io, workflowId).threw
    THEN [raised |-> FALSE, status |-> NotInjected]
    ELSE [raised |-> FALSE, status |-> getStatusTry(fs, io, workflowId).status]

\* the try block of validate
validateTry(fs, io) ==
    IF io.existsFails THEN [threw |-> TRUE, result |-> FALSE]
    ELSE IF fs.agentsDir /\ io.readdirFails THEN [threw |-> TRUE, result |-> FALSE]
    ELSE IF fs.agentsDir
            /\ \E n \in DOMAIN fs.agents : n[2] = MD /\ n \in io.unreadable
    THEN [threw |-> FALSE, result |-> FALSE]
    ELSE IF fs.settings # NoSettings
            /\ (SETTINGS_JSON \in io.unreadable \/ fs.settings = "not json")
    THEN [threw |-> FALSE, result |-> FALSE]
    ELSE [threw |-> FALSE, result |-> TRUE]

\* mutant: the outer catch of validate left out
validate_noCatch(fs, io) ==
    [raised |-> validateTry(fs, io).threw, result |-> validateTry(fs, io).result]

validate(fs, io) ==
    IF validateTry(fs, io).threw
    THEN [raised |-> FALSE, result |-> FALSE]
    ELSE [raised |-> FALSE, result |-> validateTry(fs, io).result]

(***************************************************************************)
(* The state machine.                                                      *)
(***************************************************************************)
FS == [claudeDir |-> claudeDir, agentsDir |-> agentsDir,
       agents |-> agents, claudeMd |-> claudeMd, settings |-> settings]

\* a file of the user in the agents directory, without ownership marker
UserAgentFile == join(<<SEP, Tok("name: ", "mine", 0), SEP, EMPTY,
                        Tok("systemPrompt", "my own agent", 0)>>)

\* shared documents found in a project before the first call: none, one of
\* the user, and one with an owned region between texts of the user
UserText == <<Tok("# My Custom Instructions", "", 0), NL, NL,
              Tok("Some custom content.", "", 0)>>
UserNote == <<Tok("Notes added below the region.", "", 0)>>
InitDocs ==
    {Absent,
     File(UserText),
     File(UserText \o SEPARATOR
          \o generateInstructions(ManifestOf("demo", <<"writer">>), 0)
          \o <<NL, NL>> \o UserNote \o <<NL>>)}

\* the command line before any command ran
NoUi == [pc |-> "Off"]

\* the tree recorded with a call that did not fail
NoTree == [claudeDir |-> FALSE, agentsDir |-> FALSE, agents |-> NoFiles,
           claudeMd |-> Absent, settings |-> NoSettings]

NoCall == [op |-> "none", workflowId |-> "", agentIds |-> <<>>,
           force |-> FALSE, merge |-> FALSE, backup |-> FALSE, clean |-> FALSE,
           ts |-> 0, ok |-> TRUE, error |-> "", hadDoc |-> FALSE,
           removed |-> {}, overwritten |-> {}, roundTrip |-> FALSE,
           backupCreated |-> FALSE, backupFails |-> {}]

Init ==
    /\ \E withUserFile \in BOOLEAN :
          /\ claudeDir = withUserFile
          /\ agentsDir = withUserFile
          /\ agents = IF withUserFile
                      THEN Put(NoFiles, <<"mine", MD>>, UserAgentFile)
                      ELSE NoFiles
    /\ claudeMd \in InitDocs
    /\ settings = NoSettings
    /\ now = 0
    /\ last = NoCall
    /\ ui = NoUi

\* history: the call before was a successful inject, without merge, into a
\* project that had no shared document, of the workflow now ejected
FreshInject(before, workflowId) ==
    /\ before.op = "inject" /\ before.ok /\ ~before.merge /\ ~before.hadDoc
    /\ workflowId \in {"", before.workflowId}

\* history: the call failed after it wrote at least one agent file
PartialFailure(call) ==
    call.op = "inject" /\ ~call.ok /\ call.written # {}

\* history: the call found a shared document without sentinel and appended
\* the separator and the region of the manifest to it
AppendedToUserText(doc, r, manifest, ts) ==
    /\ r.ok /\ doc.exists /\ trim(doc.content) # <<>>
    /\ ~includes(doc.content, BTW_START_MARKER)
    /\ ~includes(doc.content, BTW_END_MARKER)
    /\ r.fs.claudeMd = File(trim(doc.content) \o SEPARATOR
                            \o generateInstructions(manifest, ts))

AgentIdsOf(manifest) == [i \in 1..Len(manifest.agents) |-> manifest.agents[i].id]

InjectCall(manifest, options, io) ==
    \E r \in {inject(FS, manifest, options, now, io)} :
        /\ Count(r.fs.claudeMd.content, SEP) <= MaxSeparators
        /\ claudeDir' = r.fs.claudeDir
        /\ agentsDir' = r.fs.agentsDir
        /\ agents' = r.fs.agents
        /\ claudeMd' = r.fs.claudeMd
        /\ last' = [op |-> "inject", workflowId |-> manifest.id,
                    agentIds |-> AgentIdsOf(manifest),
                    force |-> options.force, merge |-> options.merge,
                    backup |-> options.backup, clean |-> FALSE,
                    ts |-> now, ok |-> r.ok, error |-> r.error,
                    thrown |-> r.thrown,
                    hadDoc |-> claudeMd.exists,
                    removed |-> r.removed, overwritten |-> r.overwritten,
                    roundTrip |-> FALSE,
                    backupCreated |-> r.backupCreated,
                    backupFails |-> io.backupFails,
                    written |-> r.agentPaths,
                    before |-> IF r.ok THEN NoTree ELSE FS,
                    userText |-> IF AppendedToUserText(claudeMd, r, manifest, now)
                                 THEN claudeMd.content ELSE <<>>,
                    repair |-> /\ PartialFailure(last) /\ r.ok /\ options.force
                               /\ last.workflowId = manifest.id
                               /\ last.agentIds = AgentIdsOf(manifest)]
        /\ UNCHANGED <<settings, now>>

\* a call of inject from outside the command line
Inject(manifest, options, io) == InjectCall(manifest, options, io) /\ UNCHANGED ui

EjectCall(options) ==
    \E r \in {eject(FS, options)} :
        /\ claudeDir' = r.fs.claudeDir
        /\ agentsDir' = r.fs.agentsDir
        /\ agents' = r.fs.agents
        /\ claudeMd' = r.fs.claudeMd
        /\ last' = [op |-> "eject", workflowId |-> options.workflowId,
                    agentIds |-> <<>>,
                    force |-> FALSE, merge |-> FALSE, backup |-> FALSE,
                    clean |-> options.clean,
                    ts |-> now, ok |-> r.ok, error |-> r.error,
                    thrown |-> r.thrown,
                    hadDoc |-> claudeMd.exists,
                    removed |-> r.removed, overwritten |-> {},
                    roundTrip |-> FreshInject(last, options.workflowId),
                    backupCreated |-> FALSE, backupFails |-> {}]
        /\ UNCHANGED <<settings, now>>

\* a call of eject from outside the command line
Eject(options) == EjectCall(options) /\ UNCHANGED ui

\* a call of eject whose first fileSystem.remove of an agent file throws:
\* nothing has been removed yet, and the catch (195-204) raises the error
EjectFails(options) ==
    /\ ejectAgentFiles(agents, options) # agents
    /\ last' = [op |-> "eject", workflowId |-> options.workflowId,
                agentIds |-> <<>>,
                force |-> FALSE, merge |-> FALSE, backup |-> FALSE,
                clean |-> options.clean,
                ts |-> now, ok |-> FALSE, error |-> ejectCatch(FsError).code,
                thrown |-> ejectCatch(FsError),
                hadDoc |-> claudeMd.exists,
                removed |-> {}, overwritten |-> {},
                roundTrip |-> FALSE,
                backupCreated |-> FALSE, backupFails |-> {}]
    /\ UNCHANGED <<claudeDir, agentsDir, agents, claudeMd, settings, now, ui>>

\* the clock of new Date() advances between calls
Tick ==
    /\ now < MaxTime
    /\ now' = now + 1
    /\ UNCHANGED <<claudeDir, agentsDir, agents, claudeMd, settings, last, ui>>

NoFailure == [failAt |-> 0, backupFails |-> {}]

InjectOptions == [force : BOOLEAN, merge : BOOLEAN, backup : BOOLEAN]
EjectOptions == [workflowId : WorkflowIds \cup {""}, clean : BOOLEAN]

\* the calls of the strategy, with the clock of new Date() standing still
Next ==
    \/ \E manifest \in Manifests, options \in InjectOptions :
          Inject(manifest, options, NoFailure)
    \/ \E options \in EjectOptions : Eject(options)

Spec == Init /\ [][Next]_vars

\* the same calls, with time passing between them
NextClock ==
    \/ \E manifest \in Manifests, options \in InjectOptions :
          Inject(manifest, options, NoFailure)
    \/ \E options \in EjectOptions : Eject(options)
    \/ Tick

InitClock ==
    /\ claudeDir = FALSE
    /\ agentsDir = FALSE
    /\ agents = NoFiles
    /\ claudeMd \in {Absent, File(UserText)}
    /\ settings = NoSettings
    /\ now = 0
    /\ last = NoCall
    /\ ui = NoUi

SpecClock == InitClock /\ [][NextClock]_vars

\* a call of getStatus; the tree is only read
GetStatus(io) ==
    \E workflowId \in getWorkflowIdFromAgents(Readable(agents, io)) :
        \E r \in {getStatus(FS, io, workflowId)} :
            /\ last' = [op |-> "getStatus", io |-> io,
                        raised |-> r.raised, status |-> r.status]
            /\ UNCHANGED <<claudeDir, agentsDir, agents, claudeMd, settings, now, ui>>

\* a call of validate; the tree is only read
Validate(io) ==
    \E r \in {validate(FS, io)} :
        /\ last' = [op |-> "validate", io |-> io,
                    raised |-> r.raised, result |-> r.result]
        /\ UNCHANGED <<claudeDir, agentsDir, agents, claudeMd, settings, now, ui>>

\* Array.from(workflowIds): the arrays a Set may give, one per order of
\* insertion, which is the order of readdir
ArrayFrom(workflowIds) ==
    {ids \in [1..Cardinality(workflowIds) -> workflowIds] :
        \A i, j \in DOMAIN ids : ids[i] = ids[j] => i = j}

\* a call of getAllWorkflowIdsFromAgents; the tree is only read
Scan(io) ==
    \E ids \in ArrayFrom(getAllWorkflowIdsFromAgents(Readable(agents, io))) :
        /\ last' = [op |-> "scan", io |-> io, ids |-> ids]
        /\ UNCHANGED <<claudeDir, agentsDir, agents, claudeMd, settings, now, ui>>

\* failures of the filesystem during one call: none, or one kind
NoReadFailure == [readdirFails |-> FALSE, existsFails |-> FALSE, unreadable |-> {}]
ReadIOs ==
    {NoReadFailure,
     [NoReadFailure EXCEPT !.readdirFails = TRUE],
     [NoReadFailure EXCEPT !.existsFails = TRUE],
     [NoReadFailure EXCEPT !.unreadable = {agentFilePath("writer")}],
     [NoReadFailure EXCEPT !.unreadable = {<<"mine", MD>>}],
     [NoReadFailure EXCEPT !.unreadable = {SETTINGS_JSON}]}

\* snapshots that throw during one call of inject: none, or the one of
\* writer.md (the only snapshot of some calls, one of two in others)
InjectIOs ==
    {[failAt |-> 0, backupFails |-> b] : b \in {{}, {agentFilePath("writer")}}}

\* projects as a user may have set them up: .claude with or without an
\* agents directory holding a file of the user, and settings.json absent,
\* well-formed or not
EnvProjects ==
    {[claudeDir |-> FALSE, dir |-> "none", settings |-> NoSettings],
     [claudeDir |-> TRUE, dir |-> "none", settings |-> NoSettings],
     [claudeDir |-> TRUE, dir |-> "user", settings |-> NoSettings],
     [claudeDir |-> TRUE, dir |-> "none", settings |-> "json"],
     [claudeDir |-> TRUE, dir |-> "user", settings |-> "not json"]}

InitEnv ==
    /\ \E p \in EnvProjects :
          /\ claudeDir = p.claudeDir
          /\ agentsDir = (p.dir # "none")
          /\ agents = IF p.dir = "user"
                      THEN Put(NoFiles, <<"mine", MD>>, UserAgentFile)
                      ELSE NoFiles
          /\ settings = p.settings
    /\ claudeMd = Absent
    /\ now = 0
    /\ last = NoCall
    /\ ui = NoUi

\* the calls of the strategy, inject without merge, with failing calls of
\* the filesystem
NextEnv ==
    \/ \E manifest \in Manifests, force \in BOOLEAN, backup \in BOOLEAN,
          io \in InjectIOs :
          Inject(manifest, [force |-> force, merge |-> FALSE, backup |-> backup], io)
    \/ \E options \in EjectOptions : Eject(options)
    \/ \E io \in ReadIOs : GetStatus(io)
    \/ \E io \in ReadIOs : Validate(io)

SpecEnv == InitEnv /\ [][NextEnv]_vars

\* the calls that change the tree, and the Ownership Scan with failing
\* calls of the filesystem
NextScan ==
    \/ \E manifest \in Manifests, force \in BOOLEAN, backup \in BOOLEAN :
          Inject(manifest, [force |-> force, merge |-> FALSE, backup |-> backup],
                 NoFailure)
    \/ \E options \in EjectOptions : Eject(options)
    \/ \E io \in ReadIOs : Scan(io)

SpecScan == InitEnv /\ [][NextScan]_vars

\* shared documents a user may leave behind: a start sentinel whose end
\* sentinel was lost, below text of the user and alone in the file; a blank
\* file; an ownership comment of demo quoted above the region of other
DanglingStart ==
    UserText \o <<NL, NL, BTW_START_MARKER, NL, Tok("# demo", "", 0)>>
OnlyStart == <<BTW_START_MARKER, NL, NL>>
Blank == <<NL, NL>>
QuotedMarker ==
    <<createMarker("demo", 0), NL>> \o UserText \o SEPARATOR
    \o generateInstructions(ManifestOf("other", <<"tester", "helper">>), 0)
    \o <<NL>>
MalformedDocs ==
    {File(DanglingStart), File(OnlyStart), File(Blank), File(QuotedMarker)}

InitMalformed ==
    /\ claudeDir = FALSE
    /\ agentsDir = FALSE
    /\ agents = NoFiles
    /\ claudeMd \in MalformedDocs
    /\ settings = NoSettings
    /\ now = 0
    /\ last = NoCall
    /\ ui = NoUi

\* the calls of the strategy in a project with such a document
SpecMalformed == InitMalformed /\ [][Next]_vars

TypeOK ==
    /\ claudeDir \in BOOLEAN
    /\ agentsDir \in BOOLEAN
    /\ (~agentsDir => DOMAIN agents = {})
    /\ claudeMd.exists \in BOOLEAN
    /\ settings \in SettingsStates
    /\ (~claudeDir => ~agentsDir /\ settings = NoSettings)
    /\ now \in 0..MaxTime

(***************************************************************************)
(* Vocabulary of the properties.                                           *)
(***************************************************************************)
\* the workflow id the ownership marker of a file names, NoMatch without one
Owner(content) == workflowMatch(content)

\* the agent artifacts (scan candidates) a workflow id owns
OwnedBy(files, workflowId) ==
    {n \in DOMAIN files : isCandidate(n) /\ Owner(files[n]) = workflowId}

\* the agent artifacts owned by a workflow id other than workflowId
OwnedByOthers(files, workflowId) ==
    {n \in DOMAIN files :
        isCandidate(n) /\ Owner(files[n]) \notin {NoMatch, workflowId}}

Unmarked(files) == {n \in DOMAIN files : Owner(files[n]) = NoMatch}

Kept(names) == \A n \in names : n \in DOMAIN agents' /\ agents'[n] = agents[n]

PathsOf(agentIds) == {agentFilePath(agentIds[i]) : i \in 1..Len(agentIds)}

TreeUnchanged ==
    /\ claudeDir' = claudeDir
    /\ agentsDir' = agentsDir
    /\ agents' = agents
    /\ claudeMd' = claudeMd

(***************************************************************************)
(* C1.  eject with workflowId = W removes only agent artifacts whose       *)
(* ownership marker names W: every artifact owned by another workflow id   *)
(* and every file of the agents directory without an ownership marker      *)
(* still exists, with the same content, after the call.                    *)
(***************************************************************************)
C1_EjectKeepsOthers ==
    [][(last'.op = "eject" /\ last'.workflowId # "")
          => Kept(OwnedByOthers(agents, last'.workflowId) \cup Unmarked(agents))]_vars

\* eject of demo removed demo's artifacts next to an artifact of other and a
\* file of the user, which are still there
C1_Witness ==
    /\ last.op = "eject" /\ last.workflowId = "demo"
    /\ agentFilePath("writer") \in last.removed
    /\ OwnedBy(agents, "other") = {agentFilePath("tester"), agentFilePath("helper")}
    /\ <<"mine", MD>> \in Unmarked(agents)
    /\ OwnedBy(agents, "demo") = {}

(***************************************************************************)
(* C2.  Injecting workflow B, forced or not, leaves every agent artifact   *)
(* owned by another workflow A present, byte-identical and owned by A.     *)
(***************************************************************************)
C2_InjectKeepsOthers ==
    [][last'.op = "inject"
          => Kept(OwnedByOthers(agents, last'.workflowId))]_vars

(***************************************************************************)
(* C3.  After inject(A) followed by inject(B), A # B, the shared document  *)
(* holds the entry written for A as well as the entry written for B.       *)
(***************************************************************************)
HasEntry(doc, workflowId) ==
    /\ doc.exists
    /\ includes(doc.content, Tok("- **Workflow ID:** ", workflowId, 0))

C3_EntriesCoexist ==
    [][(/\ last.op = "inject" /\ last.ok
        /\ last'.op = "inject" /\ last'.ok
        /\ last'.workflowId # last.workflowId)
          => /\ HasEntry(claudeMd', last.workflowId)
             /\ HasEntry(claudeMd', last'.workflowId)]_vars

(***************************************************************************)
(* C4.  When the installed artifacts all belong to workflow A, inject      *)
(* without force of a manifest with another id B, whose agents collide     *)
(* with no artifact of A, succeeds, and the ownership scan then reports    *)
(* both A and B.                                                           *)
(***************************************************************************)
C4_SecondWorkflowAccepted ==
    [][(/\ last'.op = "inject" /\ ~last'.force
        /\ getAllWorkflowIdsFromAgents(agents) # {}
        /\ getAllWorkflowIdsFromAgents(agents) \cap {last'.workflowId} = {}
        /\ Cardinality(getAllWorkflowIdsFromAgents(agents)) = 1
        /\ PathsOf(last'.agentIds) \cap OwnedByOthers(agents, last'.workflowId) = {})
          => /\ last'.ok
             /\ getAllWorkflowIdsFromAgents(agents')
                  = getAllWorkflowIdsFromAgents(agents) \cup {last'.workflowId}]_vars

\* other was injected without force over the second version of demo
C4_Witness ==
    /\ last.op = "inject" /\ last.workflowId = "other" /\ ~last.force /\ last.ok
    /\ last.overwritten = {} /\ last.removed = {}
    /\ OwnedBy(agents, "demo") = {agentFilePath("writer")}
    /\ OwnedBy(agents, "other") = {agentFilePath("tester"), agentFilePath("helper")}
    /\ getAllWorkflowIdsFromAgents(agents) = {"demo", "other"}

(***************************************************************************)
(* C5.  If the ownership scan reports manifest.id, inject without force    *)
(* fails with INJECTION_FAILED and leaves the agent artifacts, the         *)
(* backups, the directories and the shared document as they were.          *)
(***************************************************************************)
C5_DuplicateRejected ==
    [][(/\ last'.op = "inject" /\ ~last'.force
        /\ last'.workflowId \in getAllWorkflowIdsFromAgents(agents))
          => /\ ~last'.ok
             /\ last'.error = INJECTION_FAILED
             /\ TreeUnchanged]_vars

\* a second inject of demo without force, backup and merge requested, was
\* refused while demo's artifacts and the shared document exist
C5_Witness ==
    /\ last.op = "inject" /\ last.workflowId = "demo" /\ ~last.force
    /\ last.backup /\ last.merge
    /\ ~last.ok /\ last.error = INJECTION_FAILED
    /\ OwnedBy(agents, "demo") # {}
    /\ claudeMd.exists

(***************************************************************************)
(* C6.  inject(manifest, force = true) applied twice in a row with the     *)
(* same manifest and options leaves, after the second call, the same       *)
(* agent artifacts with the same contents and the same shared document as  *)
(* after the first call, timestamps ignored.                               *)
(***************************************************************************)
NoTs(content) ==
    [i \in 1..Len(content) |-> Tok(content[i][1], content[i][2], 0)]

ArtifactsNoTs(files) ==
    [n \in {m \in DOMAIN files : isCandidate(m)} |-> NoTs(files[n])]

DocNoTs(doc) == [exists |-> doc.exists, content |-> NoTs(doc.content)]

SameInject(a, b) ==
    /\ a.op = "inject" /\ b.op = "inject"
    /\ a.workflowId = b.workflowId /\ a.agentIds = b.agentIds
    /\ a.force = b.force /\ a.merge = b.merge /\ a.backup = b.backup

C6_ForcedInjectIdempotent ==
    [][(SameInject(last, last') /\ last.force /\ last.ok /\ last'.ok)
          => /\ ArtifactsNoTs(agents') = ArtifactsNoTs(agents)
             /\ DocNoTs(claudeMd') = DocNoTs(claudeMd)]_vars

(***************************************************************************)
(* C7.  After a successful inject(manifest, force = true) the agent        *)
(* artifacts owned by manifest.id are exactly one file per agent of the    *)
(* manifest; every artifact manifest.id owned before whose agent is not in *)
(* the manifest is gone; and the removal deleted no artifact owned by      *)
(* another workflow id.                                                    *)
(***************************************************************************)
C7_ForceSupersedes ==
    [][(last'.op = "inject" /\ last'.force /\ last'.ok)
          => /\ OwnedBy(agents', last'.workflowId) = PathsOf(last'.agentIds)
             /\ Cardinality(PathsOf(last'.agentIds)) = Len(last'.agentIds)
             /\ \A n \in OwnedBy(agents, last'.workflowId) \ PathsOf(last'.agentIds) :
                   n \notin DOMAIN agents'
             /\ \A n \in OwnedByOthers(agents, last'.workflowId) :
                   /\ n \in DOMAIN agents'
                   /\ n \notin PathsOf(last'.agentIds) => agents'[n] = agents[n]
             /\ last'.removed \subseteq OwnedBy(agents, last'.workflowId)]_vars

\* the second version of demo was forced over the first, next to an artifact
\* of other: demo's tester.md is gone, other's file is still there
C7_Witness ==
    /\ last.op = "inject" /\ last.workflowId = "demo" /\ last.force /\ last.ok
    /\ last.agentIds = <<"writer">>
    /\ last.removed = {agentFilePath("writer"), agentFilePath("tester")}
    /\ OwnedBy(agents, "demo") = {agentFilePath("writer")}
    /\ OwnedBy(agents, "other") = {agentFilePath("helper")}

(***************************************************************************)
(* C8.  From a project without shared document, inject (no merge)          *)
(* followed by eject, of that workflow or of all, leaves the shared        *)
(* document absent: the file is deleted, not left empty.                   *)
(***************************************************************************)
C8_RoundTripDeletesDocument ==
    [][(/\ last.op = "inject" /\ last.ok /\ ~last.merge /\ ~last.hadDoc
        /\ last'.op = "eject"
        /\ last'.workflowId \in {"", last.workflowId})
          => ~claudeMd'.exists]_vars

\* eject of demo right after demo was injected into a project without
\* shared document; the document is absent again
C8_Witness ==
    /\ last.op = "eject" /\ last.workflowId = "demo" /\ last.hadDoc
    /\ last.roundTrip
    /\ agentFilePath("writer") \in last.removed
    /\ ~claudeMd.exists
    /\ OwnedBy(agents, "demo") = {}

(***************************************************************************)
(* C9.  Updating the shared document twice with the same manifest and the  *)
(* same mode converges: with the timestamps frozen, the document after the *)
(* second update is byte-identical to the document after the first.        *)
(***************************************************************************)
C9_MergeIdempotent ==
    [][(SameInject(last, last') /\ last.ok /\ last'.ok /\ last'.ts = last.ts)
          => claudeMd' = claudeMd]_vars

(***************************************************************************)
(* C10.  When the shared document holds a well-formed owned region, the    *)
(* update on inject replaces exactly the span from the start sentinel to   *)
(* the end sentinel by the new region; the text before and the text after  *)
(* the span are unchanged and in place.                                    *)
(***************************************************************************)
HasRegion(content) ==
    /\ indexOf(content, BTW_START_MARKER) # -1
    /\ indexOf(content, BTW_END_MARKER) > indexOf(content, BTW_START_MARKER)

TextBefore(content) == substring(content, 0, indexOf(content, BTW_START_MARKER))
TextAfter(content) == substringFrom(content, indexOf(content, BTW_END_MARKER) + 1)

C10_RegionReplacedInPlace ==
    [][(/\ last'.op = "inject" /\ last'.ok
        /\ claudeMd.exists /\ HasRegion(claudeMd.content))
          => claudeMd'.content =
                TextBefore(claudeMd.content)
                \o generateInstructions(
                       ManifestOf(last'.workflowId, last'.agentIds), last'.ts)
                \o TextAfter(claudeMd.content)]_vars

(***************************************************************************)
(* C11.  When the shared document exists and holds no owned region,        *)
(* inject keeps the existing content and appends the new region after a    *)
(* separator, for every combination of merge and force.                    *)
(***************************************************************************)
NewRegion == generateInstructions(ManifestOf(last'.workflowId, last'.agentIds),
                                  last'.ts)

Appended == claudeMd' = File(trim(claudeMd.content) \o SEPARATOR \o NewRegion)

C11_UserContentKept ==
    [][(/\ last'.op = "inject" /\ last'.ok
        /\ claudeMd.exists /\ trim(claudeMd.content) # <<>>
        /\ ~includes(claudeMd.content, BTW_START_MARKER)
        /\ ~includes(claudeMd.content, BTW_END_MARKER))
          => Appended]_vars

(***************************************************************************)
(* C12.  A shared document with a start sentinel and no end sentinel after *)
(* it is treated as having no owned region: inject appends the new region  *)
(* and keeps the whole existing text, the dangling sentinel included.      *)
(***************************************************************************)
HasDanglingStart(content) ==
    /\ indexOf(content, BTW_START_MARKER) # -1
    /\ ~includes(substringFrom(content, indexOf(content, BTW_START_MARKER) + 1),
                 BTW_END_MARKER)

C12_DanglingStartAppends ==
    [][(/\ last'.op = "inject" /\ last'.ok
        /\ claudeMd.exists /\ HasDanglingStart(claudeMd.content))
          => Appended /\ HasRegion(claudeMd'.content)]_vars

(***************************************************************************)
(* C13.  When no BTW-owned agent artifact exists and the shared document   *)
(* has no owned region, eject with clean = false, with or without a        *)
(* workflow id, completes without error and leaves every file and          *)
(* directory, the shared document included, exactly as it was.             *)
(***************************************************************************)
NothingOwned ==
    /\ findBtwAgents(agents) = {}
    /\ getAllWorkflowIdsFromAgents(agents) = {}
    /\ ~(claudeMd.exists /\ HasRegion(claudeMd.content))

C13_EjectNothingOwnedIsNoOp ==
    [][(last'.op = "eject" /\ ~last'.clean /\ NothingOwned)
          => last'.ok /\ TreeUnchanged]_vars

(***************************************************************************)
(* C14.  eject with workflowId = W strips the owned region of the shared   *)
(* document only if the id embedded in that region is W; a region of       *)
(* another workflow leaves the document unchanged.  eject without a        *)
(* workflow id always strips the region.                                   *)
(***************************************************************************)
RegionOf(content) ==
    substring(content, indexOf(content, BTW_START_MARKER),
              indexOf(content, BTW_END_MARKER) + 1)

C14_RegionStrippedOnlyForOwner ==
    [][(last'.op = "eject" /\ claudeMd.exists /\ HasRegion(claudeMd.content))
          => IF last'.workflowId = ""
                \/ includesBtwId(RegionOf(claudeMd.content), last'.workflowId)
             THEN ~(claudeMd'.exists /\ HasRegion(claudeMd'.content))
             ELSE claudeMd' = claudeMd]_vars

(***************************************************************************)
(* C16.  After inject calls with backup enabled, forced re-injections with *)
(* a changed agent list included, eject of workflow W leaves in the agents *)
(* directory no backup file made for an artifact of W.                     *)
(***************************************************************************)
IsBackup(name) == name[2] = MD \o BACKUP_SUFFIX

BackupsOf(files, workflowId) ==
    {n \in DOMAIN files : IsBackup(n) /\ Owner(files[n]) = workflowId}

C16_EjectRemovesBackups ==
    [][(last'.op = "eject" /\ last'.ok /\ last'.workflowId # "")
          => BackupsOf(agents', last'.workflowId) = {}]_vars

(***************************************************************************)
(* C17.  eject deletes or rewrites the shared document only when it holds  *)
(* a well-formed owned region: a document with a partial marker pair or    *)
(* with no region at all keeps its existence and its bytes, even when it   *)
(* is otherwise blank.                                                     *)
(***************************************************************************)
C17_EjectKeepsMalformedDocument ==
    [][(last'.op = "eject"
        /\ ~(claudeMd.exists /\ HasRegion(claudeMd.content)))
          => claudeMd' = claudeMd]_vars

(***************************************************************************)
(* C15.  As claimed: eject removes .claude or .claude/agents only when the *)
(* clean option is set and the directory is empty after the artifacts were *)
(* removed; with clean = false it removes no directory; a directory that   *)
(* still holds a file is never removed.                                    *)
(***************************************************************************)
AgentsDirRemoved == agentsDir /\ ~agentsDir'
ClaudeDirRemoved == claudeDir /\ ~claudeDir'
ClaudeDirEmptyAfter == ~agentsDir' /\ settings' = NoSettings

C15_DirectoriesRemovedOnlyOnClean ==
    [][last'.op = "eject"
          => /\ AgentsDirRemoved => last'.clean /\ DOMAIN agents' = {}
             /\ ClaudeDirRemoved => last'.clean /\ ClaudeDirEmptyAfter
             /\ ~last'.clean => ~AgentsDirRemoved /\ ~ClaudeDirRemoved]_vars

(***************************************************************************)
(* C15, amended.  eject removes .claude/agents exactly when the directory  *)
(* exists and is empty after the artifacts were removed, whatever clean    *)
(* says; it removes .claude exactly when clean is set and .claude is empty *)
(* afterwards; a directory that still holds a file is never removed.       *)
(***************************************************************************)
C15_EmptyDirectoriesRemoved ==
    [][last'.op = "eject"
          => /\ AgentsDirRemoved <=> (agentsDir /\ DOMAIN agents = last'.removed)
             /\ ClaudeDirRemoved <=> (claudeDir /\ last'.clean /\ ClaudeDirEmptyAfter)
             /\ ~agentsDir' => DOMAIN agents' = {}
             /\ ~claudeDir' => ClaudeDirEmptyAfter
             /\ ~agentsDir => ~agentsDir'
             /\ ~claudeDir => ~claudeDir']_vars

\* eject of demo without clean removed the agents directory it emptied and
\* left .claude, which holds nothing else, in place
C15_Witness ==
    /\ last.op = "eject" /\ last.workflowId = "demo" /\ ~last.clean
    /\ agentFilePath("writer") \in last.removed
    /\ ~agentsDir /\ claudeDir /\ settings = NoSettings

(***************************************************************************)
(* C18.  getStatus never raises: whatever the tree holds and whichever     *)
(* directory listing, file read or existence check fails, it returns a     *)
(* status, and a failure that prevents the scan yields isInjected = false  *)
(* and hasBackup = false.                                                  *)
(***************************************************************************)
ScanPrevented(io) ==
    \/ io.readdirFails
    \/ io.existsFails /\ findBtwAgents(Readable(agents, io)) # {}
    \/ findBtwAgents(agents) \subseteq io.unreadable

C18_GetStatusNeverRaises ==
    [][last'.op = "getStatus"
          => /\ ~last'.raised
             /\ last'.status.isInjected \in BOOLEAN
             /\ last'.status.hasBackup \in BOOLEAN
             /\ last'.status.isInjected
                   => last'.status.workflowId \in WorkflowIds \cup {NoMatch}
             /\ ScanPrevented(last'.io) => last'.status = NotInjected]_vars

\* the existence check of a backup threw while artifacts of demo are
\* installed: the status says not injected
C18_Witness ==
    /\ last.op = "getStatus" /\ last.io.existsFails
    /\ OwnedBy(agents, "demo") # {}
    /\ ~last.raised /\ last.status = NotInjected

(***************************************************************************)
(* C19.  As claimed: validate never raises and returns false if an agent   *)
(* artifact cannot be read or settings.json exists and does not parse, and *)
(* true otherwise, also when no scaffold file exists.                      *)
(***************************************************************************)
ArtifactUnreadable(io) ==
    \E n \in DOMAIN agents : n[2] = MD /\ n \in io.unreadable

SettingsUnusable(io) ==
    settings # NoSettings /\ (settings = "not json" \/ SETTINGS_JSON \in io.unreadable)

C19_ValidateFalseOnlyOnContent ==
    [][last'.op = "validate"
          => /\ ~last'.raised
             /\ last'.result
                  = ~(ArtifactUnreadable(last'.io) \/ SettingsUnusable(last'.io))]_vars

(***************************************************************************)
(* C19, amended.  validate never raises and returns false if the existence *)
(* check fails, the listing of the agents directory fails, a .md file of   *)
(* the agents directory cannot be read, or settings.json exists and cannot *)
(* be read or parsed; it returns true otherwise, also when no scaffold     *)
(* file exists.                                                            *)
(***************************************************************************)
C19_ValidateFalseOnAnyFailure ==
    [][last'.op = "validate"
          => /\ ~last'.raised
             /\ last'.result
                  = ~(\/ last'.io.existsFails
                      \/ agentsDir /\ last'.io.readdirFails
                      \/ ArtifactUnreadable(last'.io)
                      \/ SettingsUnusable(last'.io))]_vars

\* the listing of an agents directory with artifacts of demo threw:
\* validate returned false without raising
C19_Witness ==
    /\ last.op = "validate" /\ last.io.readdirFails
    /\ OwnedBy(agents, "demo") # {}
    /\ ~last.raised /\ ~last.result

(***************************************************************************)
(* C20.  A snapshot that fails does not stop inject: the call ends as it   *)
(* would have without the failure, with the same agent files, shared       *)
(* document and outcome; only the backups of the failed snapshots are      *)
(* missing, and backupCreated is true exactly when a snapshot succeeded.   *)
(***************************************************************************)
NotBackups(files) == [n \in {m \in DOMAIN files : ~IsBackup(m)} |-> files[n]]

C20_BackupFailureNotFatal ==
    [][last'.op = "inject"
          => \E manifest \in {ManifestOf(last'.workflowId, last'.agentIds)},
                options \in {[force |-> last'.force, merge |-> last'.merge,
                              backup |-> last'.backup]} :
               \E r \in {inject(FS, manifest, options, last'.ts, NoFailure)},
                  wanted \in {backupTargets(agents, manifest, options)} :
                 /\ last'.ok = r.ok /\ last'.error = r.error
                 /\ claudeMd' = r.fs.claudeMd
                 /\ claudeDir' = r.fs.claudeDir /\ agentsDir' = r.fs.agentsDir
                 /\ NotBackups(agents') = NotBackups(r.fs.agents)
                 /\ \A f \in wanted \ last'.backupFails :
                       last'.ok => /\ backupPath(f) \in DOMAIN agents'
                                   /\ agents'[backupPath(f)] = agents[f]
                 /\ \A f \in wanted \cap last'.backupFails :
                       IF backupPath(f) \in DOMAIN agents
                       THEN /\ backupPath(f) \in DOMAIN agents'
                            /\ agents'[backupPath(f)] = agents[backupPath(f)]
                       ELSE backupPath(f) \notin DOMAIN agents'
                 /\ last'.backupCreated
                      = (last'.ok /\ wanted \ last'.backupFails # {})]_vars

\* a forced inject of demo with backup: the snapshot of writer.md threw,
\* the one of tester.md succeeded, and the call succeeded
C20_Witness ==
    /\ last.op = "inject" /\ last.workflowId = "demo" /\ last.ok
    /\ last.force /\ last.backup
    /\ last.backupFails = {agentFilePath("writer")}
    /\ last.removed = {agentFilePath("writer"), agentFilePath("tester")}
    /\ last.backupCreated
    /\ backupPath(agentFilePath("tester")) \in DOMAIN agents
    /\ backupPath(agentFilePath("writer")) \notin DOMAIN agents

\* a forced inject of demo with backup whose only snapshot threw: the call
\* succeeded and reports that no backup was made
C20_WitnessNone ==
    /\ last.op = "inject" /\ last.workflowId = "demo" /\ last.ok
    /\ last.force /\ last.backup
    /\ last.backupFails = {agentFilePath("writer")}
    /\ last.removed = {agentFilePath("writer")}
    /\ ~last.backupCreated

(***************************************************************************)
(* C21  Backup coverage: when inject is called with backup requested,      *)
(* every file of the agents directory that this inject overwrites (a file  *)
(* at a path the manifest writes, whoever owns it) or removes by force has *)
(* a snapshot taken before, so that after the call its backup holds the    *)
(* content the file had before the call.                                   *)
(***************************************************************************)
SnapshotTaken(f) ==
    /\ f \in DOMAIN agents
    /\ backupPath(f) \in DOMAIN agents'
    /\ agents'[backupPath(f)] = agents[f]

C21_BackupCoversOverwritten ==
    [][(last'.op = "inject" /\ last'.backup)
       => \A f \in last'.overwritten \cup last'.removed : SnapshotTaken(f)]_vars

(***************************************************************************)
(* Calls of inject whose writes may throw.  io.failAt = k makes the k-th   *)
(* write of the call throw: the file of the k-th agent, or, past the last  *)
(* agent, CLAUDE.md.                                                       *)
(***************************************************************************)
WriteFailures == {0, 2, 3}

\* two workflows that share the agent id tester
FailureManifests ==
    {ManifestOf("demo", <<"writer", "tester">>),
     ManifestOf("other", <<"tester", "helper">>)}

InitFailure ==
    /\ claudeDir = FALSE
    /\ agentsDir = FALSE
    /\ agents = NoFiles
    /\ claudeMd = File(UserText)
    /\ settings = NoSettings
    /\ now = 0
    /\ last = NoCall
    /\ ui = NoUi

NextFailure ==
    \/ \E manifest \in FailureManifests, force \in BOOLEAN, backup \in BOOLEAN,
          k \in WriteFailures :
          /\ k <= Len(manifest.agents) + 1
          /\ Inject(manifest, [force |-> force, merge |-> FALSE, backup |-> backup],
                    [failAt |-> k, backupFails |-> {}])
    \/ \E workflowId \in WorkflowIds \cup {""} :
          Eject([workflowId |-> workflowId, clean |-> FALSE])
    \/ \E workflowId \in WorkflowIds \cup {""} :
          EjectFails([workflowId |-> workflowId, clean |-> FALSE])

SpecFailure == InitFailure /\ [][NextFailure]_vars

(***************************************************************************)
(* C22  Partial-failure recovery: when an inject of workflow W fails after *)
(* writing at least one agent artifact, the artifacts written stay and the *)
(* ownership scan reports W as injected; when the next call is a forced    *)
(* inject of the same manifest that completes, the artifacts owned by W    *)
(* are exactly those of the manifest, the shared document holds the region *)
(* of W, and the artifacts, the directories and the document are those a   *)
(* failure-free forced inject into the tree before the failed call leaves. *)
(***************************************************************************)
SameArtifacts(fs) ==
    /\ NotBackups(agents') = NotBackups(fs.agents)
    /\ claudeMd' = fs.claudeMd
    /\ claudeDir' = fs.claudeDir /\ agentsDir' = fs.agentsDir

C22_ForcedInjectRepairs ==
    [][/\ PartialFailure(last')
          => /\ \A f \in last'.written :
                   f \in DOMAIN agents' /\ Owner(agents'[f]) = last'.workflowId
             /\ isWorkflowInjected(agents', last'.workflowId)
       /\ (last'.op = "inject" /\ last'.repair)
          => /\ OwnedBy(agents', last'.workflowId) = PathsOf(last'.agentIds)
             /\ HasEntry(claudeMd', last'.workflowId)
             /\ \E r \in {inject(last.before,
                                 ManifestOf(last'.workflowId, last'.agentIds),
                                 [force |-> TRUE, merge |-> last'.merge,
                                  backup |-> last'.backup],
                                 last'.ts, NoFailure)} :
                   r.ok /\ SameArtifacts(r.fs)]_vars

C22_Witness ==
    /\ last.op = "inject" /\ last.repair
    /\ OwnedBy(agents, "demo") = PathsOf(<<"writer", "tester">>)
    /\ backupPath(agentFilePath("writer")) \in DOMAIN agents
    /\ ~(backupPath(agentFilePath("tester")) \in DOMAIN agents)

(***************************************************************************)
(* The inject command (cli/commands/inject).  ui is the state of the       *)
(* process that runs the command: pc "Off" before the command ran, "Done"  *)
(* when executeInject returned.  The injection engine and the workflow     *)
(* manager are collaborators of the command.                               *)
(***************************************************************************)
validTargets == {"claude", "cursor", "windsurf", "copilot"}

\* InjectionEngine.isTargetSupported: a strategy is registered for the target
isTargetSupported(target) == target \in {"claude"}

\* InjectionEngine.validateManifestForTarget
validateManifestForTarget(manifest, target) == target \in manifest.targets

\* the workflows installed, in the order readdir lists their directories
InstalledWorkflows ==
    <<ManifestOf("demo", <<"writer">>),
      ManifestOf("legacy", <<"helper">>),
      ManifestOf("other", <<"tester", "helper">>)>>

\* workflowManager.get: data holds the manifest when the workflow is found
workflowManagerGet(installed, workflowId) ==
    LET hits == {i \in 1..Len(installed) : installed[i].id = workflowId}
    IN  [success |-> hits # {}, data |-> {installed[i] : i \in hits}]

\* an option the command line did not set, and the operator ??
Unset == <<>>
orElse(option, default) == IF option = Unset THEN default ELSE option[1]

\* mutant: the manifest's targets not looked at
preconditionError_anyManifest(workflowId, options) ==
    IF ~(options.target \in validTargets) THEN "Invalid target"
    ELSE IF ~isTargetSupported(options.target) THEN "is not yet supported"
    ELSE IF ~workflowManagerGet(InstalledWorkflows, workflowId).success
    THEN "not found"
    ELSE ""

\* the checks of executeInject before the dispatch, in their order: the
\* message of the first that fails, "" when all pass
preconditionError(workflowId, options) ==
    IF ~(options.target \in validTargets) THEN "Invalid target"
    ELSE IF ~isTargetSupported(options.target) THEN "is not yet supported"
    ELSE IF ~workflowManagerGet(InstalledWorkflows, workflowId).success
    THEN "not found"
    ELSE IF \E manifest \in workflowManagerGet(InstalledWorkflows, workflowId).data :
               ~validateManifestForTarget(manifest, options.target)
    THEN "does not support target"
    ELSE ""

\* the options executeInject gives to the engine
executeInjectOptions(options) ==
    [backup |-> options.backup,
     force |-> orElse(options.force, FALSE),
     merge |-> orElse(options.merge, FALSE)]

executeInject(workflowId, options) ==
    /\ ui.pc = "Off"
    /\ IF preconditionError(workflowId, options) # ""
       THEN /\ ui' = [pc |-> "Done", workflowId |-> workflowId,
                      target |-> options.target, dispatched |-> FALSE,
                      error |-> preconditionError(workflowId, options),
                      exitCode |-> 1]
            /\ UNCHANGED <<claudeDir, agentsDir, agents, claudeMd, settings,
                           now, last>>
       ELSE \E manifest \in workflowManagerGet(InstalledWorkflows, workflowId).data :
               /\ InjectCall(manifest, executeInjectOptions(options), NoFailure)
               /\ ui' = [pc |-> "Done", workflowId |-> workflowId,
                         target |-> options.target, dispatched |-> TRUE,
                         error |-> last'.error,
                         exitCode |-> IF last'.ok THEN 0 ELSE 1]

\* the process ended; the next command starts a new one
NewProcess ==
    /\ ui.pc = "Done"
    /\ ui' = NoUi
    /\ UNCHANGED <<claudeDir, agentsDir, agents, claudeMd, settings, now, last>>

CommandTargets == {"claude", "cursor", "vscode"}
CommandWorkflowIds == {"demo", "other", "legacy", "missing"}
CommandOptions ==
    [target : CommandTargets, backup : BOOLEAN,
     force : {Unset, <<TRUE>>}, merge : {Unset}]

NextCommand ==
    \/ \E workflowId \in CommandWorkflowIds, options \in CommandOptions :
          executeInject(workflowId, options)
    \/ NewProcess
    \/ \E workflowId \in WorkflowIds \cup {""} :
          Eject([workflowId |-> workflowId, clean |-> FALSE])

SpecCommand == InitFailure /\ [][NextCommand]_vars

(***************************************************************************)
(* C27  Precondition checks precede dispatch: when the target of the       *)
(* inject command is not a valid target, or no strategy of the engine      *)
(* supports it, or the workflow is not found, or its manifest does not     *)
(* declare the target, the command does not call the engine's inject,      *)
(* reports an error, sets exit code 1 and leaves the project tree as it    *)
(* was.                                                                    *)
(***************************************************************************)
Declares(workflowId, target) ==
    \E i \in 1..Len(InstalledWorkflows) :
        /\ InstalledWorkflows[i].id = workflowId
        /\ target \in InstalledWorkflows[i].targets

PreconditionViolated(workflowId, target) ==
    \/ ~(target \in validTargets)
    \/ ~isTargetSupported(target)
    \/ ~Declares(workflowId, target)

C27_ChecksPrecedeDispatch ==
    [][(ui.pc = "Off" /\ ui'.pc = "Done"
        /\ PreconditionViolated(ui'.workflowId, ui'.target))
       => /\ ~ui'.dispatched
          /\ ui'.error # "" /\ ui'.exitCode = 1
          /\ TreeUnchanged /\ last' = last]_vars

C27_Witness ==
    /\ ui.pc = "Done" /\ ui.workflowId = "legacy" /\ ui.target = "claude"
    /\ ~ui.dispatched /\ ui.exitCode = 1
    /\ OwnedBy(agents, "other") # {}

(***************************************************************************)
(* The interactive mode of the inject command: executeInteractive          *)
(* (part_002) runs runInteractiveSelector (part_004).  ui.pc is the        *)
(* position of the loop: "Listing" while list.run() waits for a key,       *)
(* "Busy" while onToggle runs, "Error" while the error of a failed toggle  *)
(* is shown, "Refresh" before getItems is called again, "Exited" after the *)
(* break.  Indexes of the selection are those of the source, from 0.       *)
(***************************************************************************)
\* the items getAllWorkflowsWithStatus returns; firstId is ids[0] of
\* getWorkflowIdFromAgents during its calls of getStatus
getAllWorkflowsWithStatus(fs, installed, target, firstId) ==
    LET shown == SelectSeq(installed, LAMBDA manifest : target \in manifest.targets)
        status == getStatus(fs, NoReadFailure, firstId).status
    IN  [i \in 1..Len(shown) |->
            [id |-> shown[i].id,
             isActive |-> status.isInjected /\ status.workflowId = shown[i].id]]

\* the lists getItems may return for a tree, one per order of readdir
getItems(fs, installed, target) ==
    {getAllWorkflowsWithStatus(fs, installed, target, firstId) :
        firstId \in getWorkflowIdFromAgents(fs.agents)}

\* the keys read from stdin: arrows, another escape sequence ("left"),
\* plain Escape, Enter, Ctrl+C and letters
Keys == {"up", "down", "left", "escape", "enter", "ctrl-c", "q", "Q", "j", "k", "x"}

\* mutant: the upper-case Q not among the cases
handleKeypress_lowerCaseOnly(key) ==
    CASE key \in {"ctrl-c", "escape", "q"} -> "cancel"
      [] key \in {"up", "k"} -> "moveUp"
      [] key \in {"down", "j"} -> "moveDown"
      [] key = "enter" -> "select"
      [] OTHER -> "ignore"

\* the listener of run() and handleKeypress: the method a key calls
handleKeypress(key) ==
    CASE key = "ctrl-c" -> "cancel"
      [] key = "up" -> "moveUp"
      [] key = "down" -> "moveDown"
      [] key = "left" -> "ignore"
      [] key = "escape" -> "cancel"
      [] key = "enter" -> "select"
      [] key \in {"q", "Q"} -> "cancel"
      [] key = "j" -> "moveDown"
      [] key = "k" -> "moveUp"
      [] OTHER -> "ignore"

moveUp(items, selectedIndex) ==
    IF Len(items) = 0 THEN selectedIndex
    ELSE (selectedIndex - 1 + Len(items)) % Len(items)

\* mutant: the selection moves the other way
moveDown_movesUp(items, selectedIndex) ==
    IF Len(items) = 0 THEN selectedIndex
    ELSE (selectedIndex - 1 + Len(items)) % Len(items)

moveDown(items, selectedIndex) ==
    IF Len(items) = 0 THEN selectedIndex
    ELSE (selectedIndex + 1) % Len(items)

\* mutant: the index kept whatever the new items are
updateItems_indexKept(items, selectedIndex) == selectedIndex

\* the selected index updateItems keeps for the new items
updateItems(items, selectedIndex) ==
    IF selectedIndex >= Len(items)
    THEN (IF Len(items) - 1 > 0 THEN Len(items) - 1 ELSE 0)
    ELSE selectedIndex

\* mutant: the force flag of the command line passed on
toggleInjectOptions_cliForce(options) ==
    [backup |-> options.backup,
     force |-> orElse(options.force, FALSE),
     merge |-> orElse(options.merge, FALSE)]

\* the options the toggle callback gives to inject
toggleInjectOptions(options) ==
    [backup |-> options.backup,
     force |-> TRUE,
     merge |-> orElse(options.merge, FALSE)]

\* the options the toggle callback gives to eject: no workflow id
toggleEjectOptions(workflowId) == [workflowId |-> "", clean |-> FALSE]

\* mutant: the catch around onToggle left out, the rejection ends the loop
afterToggle_noCatch(ok) == IF ok THEN "Refresh" ELSE "Exited"

\* the try/catch around onToggle: a throw shows the error for two seconds
afterToggle(ok) == IF ok THEN "Refresh" ELSE "Error"

NoItem == [id |-> "", isActive |-> FALSE]

executeInteractive(options, installed, isTTY) ==
    /\ ui.pc = "Off"
    /\ IF preconditionError("", options) \in {"Invalid target", "is not yet supported"}
       THEN ui' = [pc |-> "Done", workflowId |-> "", target |-> options.target,
                   dispatched |-> FALSE,
                   error |-> preconditionError("", options), exitCode |-> 1]
       ELSE \E items \in getItems(FS, installed, options.target) :
               ui' = [pc |-> IF isTTY THEN "Listing" ELSE "Exited",
                      options |-> options, installed |-> installed,
                      items |-> items, selectedIndex |-> 0, key |-> "",
                      pending |-> NoItem, called |-> "none", failed |-> FALSE]
    /\ UNCHANGED <<claudeDir, agentsDir, agents, claudeMd, settings, now, last>>

\* the toggle of the item leaves CLAUDE.md within the bound of the model
WithinBounds(item) ==
    item.isActive
    \/ \A manifest \in workflowManagerGet(ui.installed, item.id).data :
          Count(updateClaudeMd(claudeMd, manifest, toggleInjectOptions(ui.options),
                               now).content, SEP) <= MaxSeparators

\* a key arrives while list.run() listens; ui.key keeps the last key that
\* did not move the selection
KeyPress(key) ==
    /\ ui.pc = "Listing"
    /\ LET method == handleKeypress(key)
           items == ui.items
       IN  CASE method = "moveUp" ->
                  ui' = [ui EXCEPT !.selectedIndex = moveUp(items, @)]
             [] method = "moveDown" ->
                  ui' = [ui EXCEPT !.selectedIndex = moveDown(items, @)]
             [] method = "cancel" ->
                  ui' = [ui EXCEPT !.key = key, !.pc = "Exited"]
             [] method = "select" ->
                  IF Len(items) = 0
                  THEN ui' = [ui EXCEPT !.key = key, !.pc = "Exited"]
                  ELSE /\ WithinBounds(items[ui.selectedIndex + 1])
                       /\ ui' = [ui EXCEPT !.key = key, !.pc = "Busy",
                                           !.pending = items[ui.selectedIndex + 1]]
             [] OTHER -> ui' = [ui EXCEPT !.key = key]
    /\ UNCHANGED <<claudeDir, agentsDir, agents, claudeMd, settings, now, last>>

\* onToggle(result.id, item.isActive); io.lookupFails makes workflowManager.get
\* fail, io.failAt a write of inject throw
Toggle(io) ==
    /\ ui.pc = "Busy"
    /\ IF ui.pending.isActive
       THEN /\ EjectCall(toggleEjectOptions(ui.pending.id))
            /\ ui' = [ui EXCEPT !.pc = afterToggle(last'.ok), !.called = "eject",
                                !.failed = ~last'.ok]
       ELSE IF io.lookupFails \/ ~workflowManagerGet(ui.installed, ui.pending.id).success
       THEN /\ ui' = [ui EXCEPT !.pc = afterToggle(FALSE), !.called = "none",
                                !.failed = TRUE]
            /\ UNCHANGED <<claudeDir, agentsDir, agents, claudeMd, settings,
                           now, last>>
       ELSE \E manifest \in workflowManagerGet(ui.installed, ui.pending.id).data :
               /\ io.failAt <= Len(manifest.agents) + 1
               /\ InjectCall(manifest, toggleInjectOptions(ui.options),
                             [failAt |-> io.failAt, backupFails |-> {}])
               /\ ui' = [ui EXCEPT !.pc = afterToggle(last'.ok), !.called = "inject",
                                   !.failed = ~last'.ok]

\* the two seconds of the error message are over
ErrorShown ==
    /\ ui.pc = "Error"
    /\ ui' = [ui EXCEPT !.pc = "Refresh"]
    /\ UNCHANGED <<claudeDir, agentsDir, agents, claudeMd, settings, now, last>>

\* items = await getItems(); list.updateItems(items); then list.run() again
Refresh ==
    /\ ui.pc = "Refresh"
    /\ \E items \in getItems(FS, ui.installed, ui.options.target) :
          ui' = [ui EXCEPT !.pc = "Listing", !.items = items, !.key = "",
                           !.pending = NoItem,
                           !.selectedIndex = updateItems(items, @)]
    /\ UNCHANGED <<claudeDir, agentsDir, agents, claudeMd, settings, now, last>>

InteractiveOptions ==
    [target : {"claude", "vscode"}, backup : BOOLEAN,
     force : {Unset, <<TRUE>>}, merge : {Unset, <<TRUE>>}]

ToggleIOs == [lookupFails : BOOLEAN, failAt : {0, 2}]

ToggleStep == \E io \in ToggleIOs : Toggle(io)

NextInteractive ==
    \/ \E options \in InteractiveOptions, installed \in {<<>>, InstalledWorkflows},
          isTTY \in BOOLEAN :
          executeInteractive(options, installed, isTTY)
    \/ \E key \in Keys : KeyPress(key)
    \/ ToggleStep
    \/ ErrorShown
    \/ Refresh

SpecInteractive == InitFailure /\ [][NextInteractive]_vars

\* one session of the loop, started on a terminal with the default options
\* of the command line
NextInteractiveFair ==
    \/ executeInteractive([target |-> "claude", backup |-> TRUE,
                           force |-> Unset, merge |-> Unset],
                          InstalledWorkflows, TRUE)
    \/ \E key \in Keys : KeyPress(key)
    \/ ToggleStep
    \/ ErrorShown
    \/ Refresh

\* onToggle returns.  Every outcome of Toggle leaves "Busy" and the outcome
\* of a failing lookup is enabled in every "Busy" state, so weak fairness of
\* that outcome says what weak fairness of ToggleStep says: the loop does
\* not stay in "Busy" for ever.  No outcome is preferred by it.
ToggleReturns == Toggle([lookupFails |-> TRUE, failAt |-> 0])

\* the awaited calls of the loop return: onToggle, the timer of the error
\* message and getItems
SpecInteractiveFair ==
    /\ InitFailure /\ [][NextInteractiveFair]_vars
    /\ WF_vars(ToggleReturns) /\ WF_vars(ErrorShown) /\ WF_vars(Refresh)

(***************************************************************************)
(* C23  In the interactive loop a toggle on an inactive item calls inject  *)
(* with force=true, whatever the force flag of the command line is, and    *)
(* with the backup and merge options of the command line.                  *)
(***************************************************************************)
ToggleOf(active) ==
    ui.pc = "Busy" /\ ui'.pc # "Busy" /\ ui.pending.isActive = active

C23_ToggleInjectForces ==
    [][ToggleOf(FALSE)
       => /\ ui'.called \in {"inject", "none"}
          /\ ui'.called = "inject"
             => /\ last'.op = "inject" /\ last'.workflowId = ui.pending.id
                /\ last'.force
                /\ last'.backup = ui.options.backup
                /\ last'.merge = (ui.options.merge = <<TRUE>>)]_vars

C23_Witness ==
    /\ ui.pc = "Refresh" /\ ~ui.pending.isActive /\ ui.called = "inject"
    /\ ui.options.force = Unset /\ ui.options.merge = <<TRUE>>
    /\ ~ui.options.backup
    /\ last.op = "inject" /\ last.ok /\ last.force /\ last.merge /\ ~last.backup
    /\ last.removed # {}

(***************************************************************************)
(* C24  In the interactive loop a toggle on an active item ejects that     *)
(* item's workflow only, with clean=false: the artifacts of the item's     *)
(* workflow are removed and the artifacts of every other workflow are      *)
(* still present, unchanged, after the toggle.                             *)
(***************************************************************************)
C24_ToggleEjectsItemOnly ==
    [][ToggleOf(TRUE)
       => /\ ui'.called = "eject"
          /\ last'.op = "eject" /\ ~last'.clean
          /\ OwnedBy(agents', ui.pending.id) = {}
          /\ Kept(OwnedByOthers(agents, ui.pending.id))]_vars

(***************************************************************************)
(* C25  After every toggle of the interactive loop, whether the engine     *)
(* call succeeded or failed, the loop calls getItems again before it       *)
(* listens for the next key: a toggle is followed by the refresh (after    *)
(* the error message when it failed), never by the end of the loop; the    *)
(* loop comes back to Listing; and the items listed are always those       *)
(* getItems derives from the tree, never items patched in memory.          *)
(***************************************************************************)
ItemsFresh ==
    ui.pc = "Listing" => ui.items \in getItems(FS, ui.installed, ui.options.target)

QuitKeys == {"q", "Q", "escape", "ctrl-c"}

C26_QuitExits ==
    [][/\ ui.pc # "Exited"
       /\ (ui.pc = "Listing"
           /\ (ui'.key \in QuitKeys \/ (ui'.key = "enter" /\ Len(ui.items) = 0)))
          => ui'.pc = "Exited" /\ TreeUnchanged /\ last' = last
       /\ ui'.pc = "Exited" => ui.pc \in {"Off", "Listing"}]_vars

C26_Witness ==
    /\ ui.pc = "Exited" /\ ui.key = "Q"
    /\ last.op = "eject" /\ ui.called = "eject"

(***************************************************************************)
(* C28  (no formula) The results of getStatus and isWorkflowInjected       *)
(* depend only on the tree at the time of the call.  ClaudeStrategy has no *)
(* field besides the constant target, so getStatus and isWorkflowInjected  *)
(* are operators of the tree here; a formula comparing their results in    *)
(* two runs that reach the same tree compares an operator with itself.     *)
(***************************************************************************)

(***************************************************************************)
(* Shared documents with an end sentinel in front of the start sentinel:   *)
(* a stray end sentinel above a well-formed region, and an end sentinel    *)
(* above a start sentinel that no end sentinel follows.                    *)
(***************************************************************************)
StrayEnd ==
    <<BTW_END_MARKER, NL>> \o UserText \o SEPARATOR
    \o generateInstructions(ManifestOf("demo", <<"writer">>), 0) \o <<NL>>
EndBeforeStart ==
    UserText \o <<NL, NL, BTW_END_MARKER, NL, NL, BTW_START_MARKER, NL,
                  createMarker("demo", 0), NL, Tok("# ", "demo", 0), NL>>

InitStray ==
    /\ claudeDir = FALSE
    /\ agentsDir = FALSE
    /\ agents = NoFiles
    /\ claudeMd \in {File(StrayEnd), File(EndBeforeStart)}
    /\ settings = NoSettings
    /\ now = 0
    /\ last = NoCall
    /\ ui = NoUi

\* the calls of the strategy in a project with such a document
SpecStray == InitStray /\ [][Next]_vars

(***************************************************************************)
(* C29  Region location: the owned region of a shared document runs from   *)
(* the first start sentinel to the first end sentinel after that start     *)
(* sentinel.  A document with a stray end sentinel before the start        *)
(* sentinel and an end sentinel after it has a region; a document whose    *)
(* only end sentinel precedes the start sentinel has none.  Observed at    *)
(* eject, which strips the region it locates: the text left is the text    *)
(* outside that region, and the whole text when there is no region.        *)
(***************************************************************************)
FirstEndAfter(content, start) ==
    LET hits == {i \in 1..Len(content) : i > start + 1 /\ content[i] = BTW_END_MARKER}
    IN  IF hits = {} THEN -1 ELSE (CHOOSE i \in hits : \A j \in hits : i <= j) - 1

OutsideRegion(content) ==
    LET start == indexOf(content, BTW_START_MARKER)
        end == FirstEndAfter(content, start)
    IN  IF start # -1 /\ end # -1
        THEN substring(content, 0, start) \o substringFrom(content, end + 1)
        ELSE content

StripsDocument(call, doc) ==
    /\ call.op = "eject" /\ call.ok /\ doc.exists
    /\ (call.workflowId = "" \/ includesBtwId(doc.content, call.workflowId))

C29_RegionFirstEndAfterStart ==
    [][StripsDocument(last', claudeMd)
       => trim(claudeMd'.content) = trim(OutsideRegion(claudeMd.content))]_vars

(***************************************************************************)
(* C30  Strip removes the owned region together with its separator: when   *)
(* inject appended the separator and the region to a shared document that  *)
(* held only user content U, and the next call ejects that workflow (or    *)
(* all), the document left holds U and no separator line.                  *)
(***************************************************************************)
C30_RoundTripLeavesUserText ==
    [][(/\ last.op = "inject" /\ last.userText # <<>>
        /\ last'.op = "eject" /\ last'.workflowId \in {"", last.workflowId})
       => /\ claudeMd'.exists
          /\ trim(claudeMd'.content) = trim(last.userText)]_vars

(***************************************************************************)
(* C31: a call of getStatus whose reads succeed reports isInjected exactly *)
(* when some agent artifact carrying an ownership marker exists in the    *)
(* agents directory; the workflow id it then reports owns one of these    *)
(* artifacts, and right after a successful inject that left only its own  *)
(* artifacts in the directory it is the id of the injected manifest.      *)
(***************************************************************************)
C31_StatusReflectsArtifacts ==
    [][(last'.op = "getStatus" /\ last'.io = NoReadFailure) =>
          /\ last'.status.isInjected <=>
                \E n \in DOMAIN agents : isCandidate(n) /\ Owner(agents[n]) # NoMatch
          /\ last'.status.isInjected =>
                OwnedBy(agents, last'.status.workflowId) # {}
          /\ (/\ last.op = "inject" /\ last.ok
              /\ DOMAIN agents = PathsOf(last.agentIds)) =>
                /\ last'.status.isInjected
                /\ last'.status.workflowId = last.workflowId]_vars

\* getStatus has answered while two workflows own artifacts, naming one
\* of them
C31_Witness ==
    /\ last.op = "getStatus" /\ last.io = NoReadFailure
    /\ last.status.isInjected
    /\ OwnedBy(agents, "demo") # {}
    /\ OwnedBy(agents, "other") # {}
    /\ last.status.workflowId = "other"

(***************************************************************************)
(* C32: every call of inject or eject that fails raises a BTWError with    *)
(* code INJECTION_FAILED.  When a call of the filesystem threw, the        *)
(* BTWError carries the thrown Error as cause; the BTWError of the         *)
(* duplicate check reaches the caller as it was raised.  A call that       *)
(* succeeds raises nothing.                                                 *)
(***************************************************************************)
Duplicate ==
    /\ last'.op = "inject" /\ ~last'.force
    /\ isWorkflowInjected(agents, last'.workflowId)

C32_WitnessEject ==
    /\ last.op = "eject" /\ ~last.ok
    /\ last.thrown.cause = FsError

\* the duplicate check has thrown
C32_WitnessDuplicate ==
    /\ last.op = "inject" /\ ~last.ok
    /\ last.thrown = duplicateError(last.workflowId)

(***************************************************************************)
(* C33: when a writeFile of inject throws, the agent files this call has   *)
(* written are those of a prefix of the manifest's agents, each with the   *)
(* generated content; no file of a later agent has been written (its path  *)
(* is absent, or holds the unchanged file of another workflow), and the    *)
(* shared document is as it was before the call.                           *)
(***************************************************************************)
WriteFailed == last'.op = "inject" /\ ~last'.ok /\ ~Duplicate

C33_PartialStateIsPrefix ==
    [][WriteFailed =>
          LET manifest == ManifestOf(last'.workflowId, last'.agentIds)
              k == Cardinality(last'.written) + 1
              path(i) == agentFilePath(manifest.agents[i].id)
          IN  /\ k <= Len(manifest.agents) + 1
              /\ last'.written = {path(i) : i \in 1..(k - 1)}
              /\ \A i \in 1..(k - 1) :
                    /\ path(i) \in DOMAIN agents'
                    /\ agents'[path(i)] =
                          generateAgentFile(manifest.agents[i], manifest.id, last'.ts)
              /\ \A i \in k..Len(manifest.agents) :
                    \/ path(i) \notin DOMAIN agents'
                    \/ /\ path(i) \in DOMAIN agents
                       /\ agents'[path(i)] = agents[path(i)]
                       /\ Owner(agents[path(i)]) # manifest.id
              /\ claudeMd' = claudeMd]_vars

\* the write of the second agent has thrown in a project where the shared
\* document holds the region of another workflow
C33_Witness ==
    /\ last.op = "inject" /\ ~last.ok
    /\ Cardinality(last.written) = 1
    /\ Len(last.agentIds) = 2
    /\ claudeMd.exists /\ includes(claudeMd.content, BTW_START_MARKER)

(***************************************************************************)
(* The InteractiveList alone: constructed with any list of up to MaxItems  *)
(* items, it receives the keys that move the selection, and updateItems    *)
(* with any other list.                                                     *)
(***************************************************************************)
MaxItems == 3

ListIds == {"demo", "other", "third"}

\* the lists of items with distinct ids
Lists ==
    {items \in UNION {[1..n -> [id : ListIds, isActive : BOOLEAN]] : n \in 0..MaxItems} :
        \A i, j \in DOMAIN items : items[i].id = items[j].id => i = j}

\* new InteractiveList(items, options), then run() on a terminal
InitList ==
    /\ claudeDir = FALSE
    /\ agentsDir = FALSE
    /\ agents = NoFiles
    /\ claudeMd = File(UserText)
    /\ settings = NoSettings
    /\ now = 0
    /\ last = NoCall
    /\ ui \in {[pc |-> "Listing",
                options |-> [target |-> "claude", backup |-> TRUE,
                             force |-> Unset, merge |-> Unset],
                installed |-> <<>>, items |-> items, selectedIndex |-> 0,
                key |-> "", pending |-> NoItem, called |-> "none",
                failed |-> FALSE] : items \in Lists}

\* list.updateItems(items); ui.called keeps whether the call had to move
\* the selected index
UpdateItems(items) ==
    /\ ui.pc = "Listing"
    /\ ui' = [ui EXCEPT !.items = items, !.selectedIndex = updateItems(items, @),
                        !.called = IF updateItems(items, ui.selectedIndex)
                                      # ui.selectedIndex
                                   THEN "updateItems moved the index"
                                   ELSE "updateItems"]
    /\ UNCHANGED <<claudeDir, agentsDir, agents, claudeMd, settings, now, last>>

MoveKeys == {key \in Keys : handleKeypress(key) \in {"moveUp", "moveDown"}}

NextList ==
    \/ \E key \in MoveKeys : KeyPress(key)
    \/ \E items \in Lists : UpdateItems(items)

SpecList == InitList /\ [][NextList]_vars

(***************************************************************************)
(* C34: with n > 0 items a key that moves down selects index 0 from index  *)
(* n-1 and the next index otherwise; a key that moves up selects n-1 from  *)
(* index 0 and the previous index otherwise; with no item a move changes   *)
(* nothing.  The items are never changed by a move.                        *)
(***************************************************************************)
MoveDownStep == KeyPress("down") \/ KeyPress("j")

MoveUpStep == KeyPress("up") \/ KeyPress("k")

C34_MovesWrap ==
    [][LET n == Len(ui.items)
           index == ui.selectedIndex
       IN  /\ MoveDownStep =>
                 /\ ui'.items = ui.items
                 /\ ui'.selectedIndex =
                       IF n = 0 THEN index ELSE IF index = n - 1 THEN 0 ELSE index + 1
           /\ MoveUpStep =>
                 /\ ui'.items = ui.items
                 /\ ui'.selectedIndex =
                       IF n = 0 THEN index ELSE IF index = 0 THEN n - 1 ELSE index - 1]_vars

\* the last of three items is selected: it was reached by moves, and the
\* next move down wraps
C34_Witness ==
    /\ ui.pc = "Listing"
    /\ Len(ui.items) = 3
    /\ ui.selectedIndex = 2

(***************************************************************************)
(* C39: the selected index of the list is 0 when the list is empty and     *)
(* otherwise a position of the list, after any moves and any calls of      *)
(* updateItems, so that items[selectedIndex] is an item whenever the list  *)
(* is not empty.                                                            *)
(***************************************************************************)
C39_SelectedIndexValid ==
    ui.pc = "Listing" =>
        IF Len(ui.items) = 0 THEN ui.selectedIndex = 0
        ELSE ui.selectedIndex \in 0..(Len(ui.items) - 1)

\* updateItems has shrunk the list below the selected index, which now is
\* the last position of the shorter list
C39_Witness ==
    /\ ui.pc = "Listing"
    /\ ui.called = "updateItems moved the index"
    /\ Len(ui.items) = 2
    /\ ui.selectedIndex = 1

\* updateItems has emptied a list whose selected index was not 0
C39_WitnessEmpty ==
    /\ ui.pc = "Listing"
    /\ ui.called = "updateItems moved the index"
    /\ Len(ui.items) = 0

(***************************************************************************)
(* C35: the ids getAllWorkflowIdsFromAgents returns are those of the       *)
(* markers of the files it can read: a readable marked artifact has its id *)
(* in the result whatever other file is unreadable, unmarked or a backup;  *)
(* unreadable files, files without marker and backups add nothing; when    *)
(* the directory is missing or cannot be listed the result is empty; no id *)
(* occurs twice.                                                            *)
(***************************************************************************)
C35_ScanSkipsBadFiles ==
    [][last'.op = "scan" =>
          LET io == last'.io
              ids == last'.ids
              found == {ids[i] : i \in DOMAIN ids}
              read == {n \in DOMAIN agents :
                          isCandidate(n) /\ n \notin io.unreadable}
          IN  /\ ~io.readdirFails =>
                    \A n \in read : Owner(agents[n]) # NoMatch =>
                                       Owner(agents[n]) \in found
              /\ \A w \in found : \E n \in read : Owner(agents[n]) = w
              /\ (~agentsDir \/ io.readdirFails) => ids = <<>>
              /\ \A i, j \in DOMAIN ids : ids[i] = ids[j] => i = j]_vars

\* the scan has met an unreadable artifact, a file of the user without
\* marker and a backup, and has returned the id of a readable artifact
C35_Witness ==
    /\ last.op = "scan"
    /\ last.io.unreadable = {agentFilePath("writer")}
    /\ agentFilePath("writer") \in DOMAIN agents
    /\ <<"mine", MD>> \in DOMAIN agents
    /\ \E n \in DOMAIN agents : ~isCandidate(n)
    /\ Len(last.ids) >= 1

(***************************************************************************)
(* C36: while the interactive list is shown, an item is active exactly     *)
(* when the Ownership Scan of the agents directory reports the item's      *)
(* workflow id; two listed workflows that both own artifacts are both      *)
(* shown as active.                                                         *)
(***************************************************************************)
C36_ActiveIffScanReports ==
    ui.pc = "Listing" =>
        \A i \in DOMAIN ui.items :
            ui.items[i].isActive <=>
                ui.items[i].id \in getAllWorkflowIdsFromAgents(agents)

(***************************************************************************)
(* C37: the list refreshed after a toggle whose engine call succeeded      *)
(* shows the toggled item with the opposite active flag and every other    *)
(* item with the active flag it had before the toggle.                     *)
(***************************************************************************)
RefreshAfterSuccess ==
    /\ ui.pc = "Refresh" /\ ui'.pc = "Listing"
    /\ ~ui.failed /\ ui.called \in {"inject", "eject"}

C37_ToggleFlipsOnlyItsItem ==
    [][RefreshAfterSuccess =>
          /\ Len(ui'.items) = Len(ui.items)
          /\ \A i \in DOMAIN ui'.items :
                /\ ui'.items[i].id = ui.items[i].id
                /\ ui'.items[i].isActive =
                      IF ui.items[i].id = ui.pending.id
                      THEN ~ui.pending.isActive
                      ELSE ui.items[i].isActive]_vars

(***************************************************************************)
(* C38: from a shared document that is absent or holds no sentinel, every  *)
(* sequence of inject calls (merge and force in any mix, any workflow) and *)
(* eject calls leaves a shared document that, when it exists, holds at     *)
(* most one start sentinel and at most one end sentinel, the start before  *)
(* the end.                                                                 *)
(***************************************************************************)
SpecRegion == InitClock /\ [][Next]_vars

C38_SingleOwnedRegion ==
    claudeMd.exists =>
        /\ Count(claudeMd.content, BTW_START_MARKER) <= 1
        /\ Count(claudeMd.content, BTW_END_MARKER) <= 1
        /\ (/\ includes(claudeMd.content, BTW_START_MARKER)
            /\ includes(claudeMd.content, BTW_END_MARKER))
           => indexOf(claudeMd.content, BTW_START_MARKER)
                 < indexOf(claudeMd.content, BTW_END_MARKER)

\* an inject with merge has replaced the region of a document that holds
\* text of the user
C38_Witness ==
    /\ last.op = "inject" /\ last.ok /\ last.merge /\ last.hadDoc
    /\ last.userText = <<>>
    /\ claudeMd.exists
    /\ includes(claudeMd.content, UserText[1])
    /\ Count(claudeMd.content, BTW_START_MARKER) = 1

(***************************************************************************)
(* Workflows whose agents carry texts of every kind: a plain description, a *)
(* quoted one, descriptions that mention a workflow comment, and a prompt   *)
(* that is one.                                                             *)
(***************************************************************************)
AttributionManifests ==
    {ManifestOf("demo", <<"writer", "tester">>),
     ManifestOf("demo", <<"prompter">>),
     ManifestOf("demo", <<"quoter">>),
     ManifestOf("demo", <<"breaker">>),
     ManifestOf("other", <<"helper", "prompter">>)}

NextAttribution ==
    \/ \E manifest \in AttributionManifests, force \in BOOLEAN :
          Inject(manifest, [force |-> force, merge |-> FALSE, backup |-> FALSE],
                 NoFailure)
    \/ \E workflowId \in WorkflowIds :
          Eject([workflowId |-> workflowId, clean |-> FALSE])
    \/ Scan(NoReadFailure)

SpecAttribution == InitFailure /\ [][NextAttribution]_vars

(***************************************************************************)
(* C40: every artifact a successful inject of workflow W has generated is  *)
(* found by findBtwAgentsForWorkflow for W and for no other workflow id,   *)
(* and the Ownership Scan of that artifact reports W and nothing else,     *)
(* whatever the description and the prompt of the agent are.               *)
(***************************************************************************)
C40_AttributionFaithful ==
    [][(last'.op = "inject" /\ last'.ok) =>
          \A p \in last'.written :
              LET artifact == [n \in {p} |-> agents'[p]]
              IN  /\ findBtwAgentsForWorkflow(artifact, last'.workflowId) = {p}
                  /\ \A w \in WorkflowIds \ {last'.workflowId} :
                        findBtwAgentsForWorkflow(artifact, w) = {}
                  /\ getAllWorkflowIdsFromAgents(artifact) = {last'.workflowId}]_vars

\* the artifacts of agents with a plain or quoted description and of the
\* agent whose prompt is a workflow comment are attributed to their workflow
C40_PlainTextsAttributed ==
    [][(last'.op = "inject" /\ last'.ok) =>
          \A i \in DOMAIN last'.agentIds :
              last'.agentIds[i] \notin {"quoter", "breaker"} =>
                 getAllWorkflowIdsFromAgents(
                     [n \in {agentFilePath(last'.agentIds[i])} |-> agents'[n]])
                 = {last'.workflowId}]_vars

====
